---------------------------- MODULE Spec2Model ----------------------------
(***************************************************************************)
(* Model of stephenjkaplan/song-popularity-predictor:                      *)
(*   - generate_spotify_album_features (both copies): track rows of one    *)
(*     album collapsed into one album-level row;                           *)
(*   - manual_cross_validate / manual_cross_validate_poly: k-fold loop     *)
(*     with a per-fold StandardScaler;                                     *)
(*   - score_baseline_linear_regression_model: single train/val split;     *)
(*   - scroll_infinite_page: bounded scrolling loop;                       *)
(*   - app.py: one run of the Streamlit script;                            *)
(*   - get_spotify_track_popularity_and_artist_followers: track URIs sent  *)
(*     to the API in groups;                                               *)
(*   - get_spotify_track_audio_features: per-album collection of track     *)
(*     records under error handling.                                       *)
(* Every program is a specification of its own over the shared variables   *)
(* (SpecAgg, SpecCV, SpecBaseline, SpecScroll, SpecApp,                    *)
(* SpecTrackPopularity, SpecAudioFeatures); Spec is their union.           *)
(***************************************************************************)
EXTENDS Integers, Sequences, FiniteSets, TLC

VARIABLES
    \* generate_spotify_album_features
    album_tracks,   \* the DataFrame passed in: [columns, rows]
    agg_fn,         \* which copy was called: "none", "preparation", "acquisition"
    agg_out,        \* outcome of the call: [raised, frame]
    \* manual_cross_validate, manual_cross_validate_poly
    cv_fn,          \* which of the two functions is running
    X,              \* the feature matrix: [rows, columns] (counts)
    y,              \* the target: its number of rows
    cv,             \* the fold count passed in
    cv_pc,          \* "call", "loop", "returned", "raised"
    cv_error,       \* kind of the exception raised, or "none"
    indices,        \* KFold's shuffled row indices
    fold,           \* loop iterations completed
    folds,          \* per iteration: the rows of X_train and of X_val
    scaler,         \* the StandardScaler bound to `scaler`: rows in its statistics
    estimator,      \* the estimator object the caller passed in
    r2_train, r2_val, rmse,   \* the three metric lists
    printed,        \* lines printed so far
    \* score_baseline_linear_regression_model
    bl_rows,        \* number of rows of X and y
    bl_pc,          \* "call", "returned", "raised"
    bl_X_train, bl_X_val,   \* the rows train_test_split put on each side
    lr_model,       \* rows lr_model was fitted on
    bl_printed,     \* what was printed
    \* scroll_infinite_page
    num_albums,     \* the argument
    page,           \* review-collection fragments on the page
    sc_i,           \* the loop variable i
    num_review_collections,   \* the last count taken
    scrolls,        \* scrolls executed
    sc_pc,          \* "loop", "returned"
    \* app.py, one run of the script
    followers,      \* the followers slider
    danceability, energy, speechiness, valence,   \* the sliders, in hundredths
    mode_label,     \* the radio button
    model,          \* the artifact loaded from data/final_model.pkl
    popularity,     \* model.predict(...)[0], in thousandths
    popularity_display,   \* values passed to the progress meter
    popularity_number,    \* values shown as the score
    app_pc,         \* "run", "done", "raised"
    \* get_spotify_track_popularity_and_artist_followers
    track_uris,     \* the argument: a list of track URIs
    uri_iter,       \* items iter(track_uris) has handed out
    requests,       \* the URI lists sent to spotify_api_client.tracks, in order
    track_popularity,   \* the records collected
    df_spotify_track_popularity,   \* the rows of the DataFrame returned
    tp_pc,          \* "loop", "returned"
    \* get_spotify_track_audio_features
    album_names,    \* the argument: a list of album names
    artist_names,   \* the argument: a list of artist names
    spotify,        \* what the API answers for the album at each position
    af_i,           \* pairs of zip(album_names_spotify, artist_names) taken
    track_audio_features,   \* the records collected
    af_printed,     \* positions of the albums an error line was printed for
    df_track_audio_features,   \* the rows of the DataFrame returned
    af_pc           \* "loop", "returned", "raised"

aggVars == <<album_tracks, agg_fn, agg_out>>

cvVars == <<cv_fn, X, y, cv, cv_pc, cv_error, indices, fold, folds, scaler,
            estimator, r2_train, r2_val, rmse, printed>>

blVars == <<bl_rows, bl_pc, bl_X_train, bl_X_val, lr_model, bl_printed>>

scVars == <<num_albums, page, sc_i, num_review_collections, scrolls, sc_pc>>

appVars == <<followers, danceability, energy, speechiness, valence, mode_label,
             model, popularity, popularity_display, popularity_number, app_pc>>

tpVars == <<track_uris, uri_iter, requests, track_popularity,
            df_spotify_track_popularity, tp_pc>>

afVars == <<album_names, artist_names, spotify, af_i, track_audio_features,
            af_printed, df_track_audio_features, af_pc>>

vars == <<aggVars, cvVars, blVars, scVars, appVars, tpVars, afVars>>

-----------------------------------------------------------------------------
(* Bounds of the model *)

\* Significand width of the modelled binary floating point numbers.  numpy's
\* float64 carries 53 bits; the model carries MantBits so that products stay
\* inside TLC's integers.  Rounding is round-to-nearest, ties-to-even, as in
\* IEEE 754.
MantBits == 16

\* Longest batch of track rows passed to the aggregator.
MaxTracks == 3

\* Most rows of a feature matrix, most folds asked for, most feature columns.
MaxRows == 5

MaxFolds == 5

MaxCols == 2

\* Most rows handed to score_baseline_linear_regression_model.
MaxBaselineRows == 20

\* Largest num_albums asked of scroll_infinite_page, and the most
\* review-collection fragments the page ever shows.
MaxAlbums == 25

MaxFragments == 3

\* Longest list of track URIs passed to
\* get_spotify_track_popularity_and_artist_followers.
MaxUris == 120

\* Longest list of album names passed to get_spotify_track_audio_features, and
\* most tracks the API lists for one album.
MaxAlbumNames == 2

MaxAlbumTracks == 2

-----------------------------------------------------------------------------
(* Binary floating point: a number is [m, e] with value m * 2^e, normalised
   so that 2^(MantBits-1) <= |m| < 2^MantBits, or m = 0 and e = 0. *)

RECURSIVE Pow2(_)
Pow2(k) == IF k <= 0 THEN 1 ELSE 2 * Pow2(k - 1)

RECURSIVE Pow10(_)
Pow10(k) == IF k <= 0 THEN 1 ELSE 10 * Pow10(k - 1)

Abs(i) == IF i < 0 THEN -i ELSE i

Sign(i) == IF i < 0 THEN -1 ELSE 1

Min(a, b) == IF a <= b THEN a ELSE b

\* n / d rounded to the nearest integer, ties to the even one (n >= 0, d > 0).
RoundHalfEven(n, d) ==
    LET q == n \div d
        r == n % d
    IN  IF 2 * r < d THEN q
        ELSE IF 2 * r > d THEN q + 1
        ELSE q + (q % 2)

\* Significands lie in MantLow .. MantHigh - 1.
MantHigh == Pow2(MantBits)

MantLow == Pow2(MantBits - 1)

\* Scale n/d * 2^e until the integer part of n/d has exactly MantBits bits.
RECURSIVE Scale(_, _, _)
Scale(n, d, e) ==
    IF n \div d >= MantHigh THEN Scale(n, 2 * d, e + 1)
    ELSE IF n \div d < MantLow THEN Scale(2 * n, d, e - 1)
    ELSE <<n, d, e>>

FloatZero == [m |-> 0, e |-> 0]

\* The float nearest to s * (n / d) * 2^e  (s = 1 or -1, n >= 0, d > 0).
RoundToFloat(s, n, d, e) ==
    IF n = 0 THEN FloatZero
    ELSE LET t == Scale(n, d, e)
             q == RoundHalfEven(t[1], t[2])
         IN  IF q = MantHigh
             THEN [m |-> s * MantLow, e |-> t[3] + 1]
             ELSE [m |-> s * q, e |-> t[3]]

\* float(i) for an integer i
FromInt(i) == RoundToFloat(Sign(i), Abs(i), 1, 0)

\* The float a decimal literal n/d parses to (0.735 is Dec(735, 1000)).
Dec(n, d) == RoundToFloat(Sign(n), Abs(n), d, 0)

\* x + z, rounded once
FloatAdd(x, z) ==
    IF x.m = 0 THEN z
    ELSE IF z.m = 0 THEN x
    ELSE LET e == Min(x.e, z.e)
             n == x.m * Pow2(x.e - e) + z.m * Pow2(z.e - e)
         IN  RoundToFloat(Sign(n), Abs(n), 1, e)

\* x / k for a positive integer k, rounded once
FloatDivInt(x, k) == RoundToFloat(Sign(x.m), Abs(x.m), k, x.e)

\* x * k for a positive integer k, rounded once
FloatMulInt(x, k) == RoundToFloat(Sign(x.m), Abs(x.m) * k, 1, x.e)

\* numpy.rint: the nearest integer, ties to even, as a float
FloatRint(x) ==
    IF x.e >= 0 THEN x
    ELSE IF -x.e > MantBits + 1 THEN FloatZero
    ELSE LET k == RoundHalfEven(Abs(x.m), Pow2(-x.e))
         IN  RoundToFloat(Sign(x.m), k, 1, 0)

\* x <= z, decided exactly
FloatLeq(x, z) ==
    LET e == Min(x.e, z.e)
    IN  x.m * Pow2(x.e - e) <= z.m * Pow2(z.e - e)

\* numpy.trunc in place of numpy.rint
FloatTrunc(x) ==
    IF x.e >= 0 THEN x
    ELSE IF -x.e > MantBits + 1 THEN FloatZero
    ELSE RoundToFloat(Sign(x.m), Abs(x.m) \div Pow2(-x.e), 1, 0)

\* As round, but truncating instead of rounding to nearest.
round_trunc(x, decimals) ==
    FloatDivInt(FloatTrunc(FloatMulInt(x, Pow10(decimals))), Pow10(decimals))

\* round(x, decimals) of a numpy float64: multiply by 10^decimals, rint,
\* divide by 10^decimals.
round(x, decimals) ==
    FloatDivInt(FloatRint(FloatMulInt(x, Pow10(decimals))), Pow10(decimals))

-----------------------------------------------------------------------------
(* Track rows and the DataFrame handed to the aggregator *)

Row(dur, tempo, mode, dance, en, loud, speech, acoustic, instr, live, val) ==
    [Album_Title |-> "Album", Artist |-> "Artist",
     Duration_ms |-> dur, Tempo |-> tempo, Mode |-> mode,
     Danceability |-> dance, Energy |-> en, Loudness |-> loud,
     Speechiness |-> speech, Acousticness |-> acoustic,
     Instrumentalness |-> instr, Liveness |-> live, Valence |-> val]

\* The track rows batches are drawn from: all of one album and artist, Mode
\* 0 or 1, feature values as the Spotify API reports them.
TrackRows ==
    { Row(180000, Dec(1200, 10), 1, Dec(5, 10), Dec(8, 10), Dec(-52, 10),
          Dec(4, 100), Dec(10, 100), FloatZero, Dec(12, 100), Dec(6, 10)),
      Row(200000, Dec(1300, 10), 1, Dec(6, 10), Dec(7, 10), Dec(-61, 10),
          Dec(5, 100), Dec(20, 100), Dec(1, 1000), Dec(30, 100), Dec(4, 10)),
      Row(220000, Dec(1250, 10), 0, Dec(7, 10), Dec(6, 10), Dec(-73, 10),
          Dec(30, 100), Dec(2, 100), Dec(85, 100), Dec(10, 100), Dec(9, 10)),
      Row(215347, Dec(1131, 10), 0, Dec(735, 1000), Dec(912, 1000), Dec(-487, 100),
          Dec(612, 10000), Dec(24, 10000), FloatZero, Dec(931, 10000),
          Dec(52, 100)) }

RECURSIVE SeqsUpTo(_, _)
SeqsUpTo(S, n) ==
    IF n = 0 THEN { << >> }
    ELSE LET shorter == SeqsUpTo(S, n - 1)
         IN  shorter \cup { Append(q, x) : q \in { r \in shorter : Len(r) = n - 1 }, x \in S }

\* A DataFrame: whether it has the track columns at all (pd.DataFrame([]) has
\* none) and its rows.
DataFrames ==
    { [columns |-> TRUE, rows |-> q] : q \in SeqsUpTo(TrackRows, MaxTracks) }
        \cup { [columns |-> FALSE, rows |-> << >>] }

Perms(n) == { p \in [1..n -> 1..n] : \A i, j \in 1..n : p[i] = p[j] => i = j }

\* The frame with its rows in the order p
Reordered(frame, p) ==
    [frame EXCEPT !.rows = [i \in 1..Len(frame.rows) |-> frame.rows[p[i]]]]

-----------------------------------------------------------------------------
(* pandas reductions over a column; col is the sequence of the column's values *)

Column(frame, name) == [i \in 1..Len(frame.rows) |-> frame.rows[i][name]]

\* Series.sum() of an integer column: exact
RECURSIVE IntSum(_)
IntSum(col) == IF Len(col) = 0 THEN 0 ELSE col[1] + IntSum(Tail(col))

\* Series.sum() of a float column: added up in row order, each addition rounded
RECURSIVE FloatSumFrom(_, _)
FloatSumFrom(acc, col) ==
    IF Len(col) = 0 THEN acc ELSE FloatSumFrom(FloatAdd(acc, col[1]), Tail(col))

\* Series.mean() of a non-empty float column
mean(col) == FloatDivInt(FloatSumFrom(FloatZero, col), Len(col))

-----------------------------------------------------------------------------
(* generate_spotify_album_features *)

\* len(album_tracks.shape): a DataFrame has two dimensions
ShapeLen == 2

Raised(kind) == [raised |-> kind, frame |-> << >>]

\* lines 16-44 of data_preparation_utilities.py (309-337 of
\* data_acquisition_utilities.py): the one-row frame, with num_tracks as the
\* copy computes it
AlbumRow(frame, num_tracks) ==
    [Album_Title |-> frame.rows[1].Album_Title,
     Artist |-> frame.rows[1].Artist,
     Number_of_Tracks |-> num_tracks,
     Duration_minutes |->
         round(FloatDivInt(FloatDivInt(
             FromInt(IntSum(Column(frame, "Duration_ms"))), 1000), 60), 2),
     Avg_Tempo |-> round(mean(Column(frame, "Tempo")), 2),
     Majorness |->
         round(FloatDivInt(FromInt(IntSum(Column(frame, "Mode"))),
                           Len(frame.rows)), 4),
     Avg_Danceability |-> round(mean(Column(frame, "Danceability")), 4),
     Avg_Energy |-> round(mean(Column(frame, "Energy")), 4),
     Avg_Loudness |-> round(mean(Column(frame, "Loudness")), 2),
     Avg_Speechiness |-> round(mean(Column(frame, "Speechiness")), 4),
     Avg_Acousticness |-> round(mean(Column(frame, "Acousticness")), 4),
     Avg_Instrumentalness |-> round(mean(Column(frame, "Instrumentalness")), 4),
     Avg_Liveness |-> round(mean(Column(frame, "Liveness")), 4),
     Avg_Valence |-> round(mean(Column(frame, "Valence")), 4)]

\* As AlbumFeatures, but the title and artist are read with .head(1) instead
\* of .iloc[0], so that an empty frame raises nothing.
AlbumFeatures_head(frame, num_tracks) ==
    IF ~frame.columns THEN Raised("KeyError")
    ELSE IF Len(frame.rows) = 0 THEN [raised |-> "none", frame |-> << >>]
    ELSE [raised |-> "none", frame |-> << AlbumRow(frame, num_tracks) >>]

\* The whole function body: the column lookup and .iloc[0] of lines 14-15
\* (307-308) raise before anything is computed.
AlbumFeatures(frame, num_tracks) ==
    IF ~frame.columns THEN Raised("KeyError")           \* album_tracks['Album Title']
    ELSE IF Len(frame.rows) = 0 THEN Raised("IndexError")   \* .iloc[0]
    ELSE [raised |-> "none", frame |-> << AlbumRow(frame, num_tracks) >>]

\* As generate_spotify_album_features, but Majorness reads the first row's
\* Mode (.iloc[0]) instead of the column's sum.
generate_spotify_album_features_iloc(frame) ==
    LET out == AlbumFeatures(frame, Len(frame.rows))
    IN  IF out.raised # "none" THEN out
        ELSE [out EXCEPT !.frame[1].Majorness =
                 round(FloatDivInt(FromInt(frame.rows[1].Mode), Len(frame.rows)), 4)]

\* data_preparation_utilities.generate_spotify_album_features
generate_spotify_album_features(frame) == AlbumFeatures(frame, Len(frame.rows))

\* data_acquisition_utilities.generate_spotify_album_features
acquisition_generate_spotify_album_features(frame) == AlbumFeatures(frame, ShapeLen)

NotCalled == [raised |-> "not called", frame |-> << >>]

AggInit ==
    /\ album_tracks \in DataFrames
    /\ agg_fn = "none"
    /\ agg_out = NotCalled

\* The aggregator when another program is the one running
AggIdle ==
    /\ album_tracks = [columns |-> FALSE, rows |-> << >>]
    /\ agg_fn = "idle"
    /\ agg_out = NotCalled

CallPreparation ==
    /\ agg_fn = "none"
    /\ agg_fn' = "preparation"
    /\ agg_out' = generate_spotify_album_features(album_tracks)
    /\ UNCHANGED <<album_tracks, cvVars, blVars, scVars, appVars,
                   tpVars, afVars>>

CallAcquisition ==
    /\ agg_fn = "none"
    /\ agg_fn' = "acquisition"
    /\ agg_out' = acquisition_generate_spotify_album_features(album_tracks)
    /\ UNCHANGED <<album_tracks, cvVars, blVars, scVars, appVars,
                   tpVars, afVars>>

AggNext == CallPreparation \/ CallAcquisition


-----------------------------------------------------------------------------
(* manual_cross_validate and manual_cross_validate_poly.  Rows are numbered
   1..n; a fitted object is modelled by the set of rows its fit read. *)

Rows(n) == 1..n

\* KFold(n_splits=cv, shuffle=True) and the first step of kf.split(X, y):
\* the constructor rejects n_splits <= 1, split rejects X and y of different
\* lengths and more splits than samples; all three raise ValueError.
split_error_unchecked(n_X, n_y, n_splits) ==
    IF n_splits <= 1 \/ n_X # n_y THEN "ValueError" ELSE "none"

split_error(n_X, n_y, n_splits) ==
    IF n_splits <= 1 THEN "ValueError"
    ELSE IF n_X # n_y THEN "ValueError"
    ELSE IF n_splits > n_X THEN "ValueError"
    ELSE "none"

\* KFold._iter_test_indices: n % n_splits folds of n \div n_splits + 1 rows,
\* then folds of n \div n_splits rows
fold_size(n, n_splits, i) == (n \div n_splits) + (IF i <= n % n_splits THEN 1 ELSE 0)

RECURSIVE fold_start(_, _, _)
fold_start(n, n_splits, i) ==
    IF i <= 1 THEN 0
    ELSE fold_start(n, n_splits, i - 1) + fold_size(n, n_splits, i - 1)

\* the val_ind of iteration i: a slice of the shuffled indices
test_indices(ind, n_splits, i) ==
    LET n == Len(ind)
        start == fold_start(n, n_splits, i)
    IN  { ind[t] : t \in (start + 1)..(start + fold_size(n, n_splits, i)) }

\* the train_ind of iteration i: every index not in the test mask
train_indices(ind, n_splits, i) ==
    { ind[t] : t \in 1..Len(ind) } \ test_indices(ind, n_splits, i)

\* X.iloc[ind] / X[ind]: the rows selected
iloc(n, ind) == ind \cap Rows(n)

\* As X_train_rows, but X is not sliced.
X_train_rows_unsliced(n, train_ind) == Rows(n)

\* line 73 (105): X_train = X.iloc[train_ind]
X_train_rows(n, train_ind) == iloc(n, train_ind)

\* StandardScaler(): nothing seen
StandardScaler == [seen |-> {}]

\* scaler.fit_transform(rows): fit resets the statistics, then learns rows
fit_transform(sc, rows) == [seen |-> rows]

\* As transform, but the scaler is fitted again on the rows it scales.
transform_refit(sc, rows) == fit_transform(sc, rows)

\* scaler.transform(rows): scales rows, the statistics stay
transform(sc, rows) == sc

\* estimator.fit(rows): coefficients are replaced by those of this fit, one
\* per column
fit(est, rows, columns, i) ==
    [fit_rows |-> rows, fits |-> est.fits + 1,
     coef_ |-> [c \in 1..columns |-> [column |-> c, fold |-> i]]]

\* estimator.score(rows) / mean_squared_error over rows: the value depends on
\* the fit and on the rows scored
score(est, rows) == [fit_rows |-> est.fit_rows, scored |-> rows]

Unfitted == [fit_rows |-> {}, fits |-> 0, coef_ |-> << >>]

CVFunctions == {"manual_cross_validate", "manual_cross_validate_poly"}

CVInit ==
    /\ cv_fn \in CVFunctions
    /\ X \in [rows : 0..MaxRows, columns : 1..MaxCols]
    /\ y \in {X.rows - 1, X.rows, X.rows + 1} \cap Nat
    /\ cv \in 1..MaxFolds
    /\ cv_pc = "call"
    /\ cv_error = "none"
    /\ indices = << >>
    /\ fold = 0
    /\ folds = << >>
    /\ scaler = StandardScaler
    /\ estimator = Unfitted
    /\ r2_train = << >>
    /\ r2_val = << >>
    /\ rmse = << >>
    /\ printed = << >>

\* The cross validation when another program is the one running
CVIdle ==
    /\ cv_fn = "manual_cross_validate"
    /\ X = [rows |-> 0, columns |-> 1]
    /\ y = 0
    /\ cv = 1
    /\ cv_pc = "idle"
    /\ cv_error = "none"
    /\ indices = << >>
    /\ fold = 0
    /\ folds = << >>
    /\ scaler = StandardScaler
    /\ estimator = Unfitted
    /\ r2_train = << >>
    /\ r2_val = << >>
    /\ rmse = << >>
    /\ printed = << >>

\* lines 70-72 (102-104): kf = KFold(...), the empty lists, and the start of
\* kf.split(X, y), which shuffles the indices or raises
CVEnter ==
    /\ cv_pc = "call"
    /\ LET err == split_error(X.rows, y, cv)
       IN  IF err # "none"
           THEN /\ cv_pc' = "raised"
                /\ cv_error' = err
                /\ UNCHANGED indices
           ELSE /\ cv_pc' = "loop"
                /\ \E p \in Perms(X.rows) : indices' = p
                /\ UNCHANGED cv_error
    /\ UNCHANGED <<cv_fn, X, y, cv, fold, folds, scaler, estimator,
                   r2_train, r2_val, rmse, printed, aggVars, blVars, scVars, appVars,
                   tpVars, afVars>>

\* lines 73-83 (105-115): one iteration of the loop
CVFold ==
    /\ cv_pc = "loop"
    /\ fold < cv
    /\ LET i == fold + 1
           train_ind == train_indices(indices, cv, i)
           val_ind == test_indices(indices, cv, i)
           X_train == X_train_rows(X.rows, train_ind)
           X_val == iloc(X.rows, val_ind)
           fitted == fit_transform(StandardScaler, X_train)
           est == fit(estimator, X_train, X.columns, i)
       IN  /\ scaler' = transform(fitted, X_val)
           /\ estimator' = est
           /\ r2_train' = Append(r2_train, score(est, X_train))
           /\ r2_val' = Append(r2_val, score(est, X_val))
           /\ rmse' = Append(rmse, score(est, X_val))
           /\ folds' = Append(folds, [train |-> X_train, val |-> X_val])
           /\ fold' = i
    /\ UNCHANGED <<cv_fn, X, y, cv, cv_pc, cv_error, indices, printed, aggVars, blVars, scVars, appVars,
                   tpVars, afVars>>

\* lines 85-90 (117-119): the averages, and in manual_cross_validate the
\* coefficients zipped with X.columns
CVReport ==
    /\ cv_pc = "loop"
    /\ fold = cv
    /\ printed' =
          <<[line |-> "R2 Train Avg", of |-> r2_train],
            [line |-> "R2 Val Avg", of |-> r2_val],
            [line |-> "RMSE Avg", of |-> rmse]>>
          \o (IF cv_fn = "manual_cross_validate"
              THEN <<[line |-> "----Coefficients----", of |-> << >>]>>
                   \o [c \in 1..Min(Len(estimator.coef_), X.columns) |->
                          [line |-> "coefficient", of |-> <<c, estimator.coef_[c]>>]]
              ELSE << >>)
    /\ cv_pc' = "returned"
    /\ UNCHANGED <<cv_fn, X, y, cv, cv_error, indices, fold, folds, scaler,
                   estimator, r2_train, r2_val, rmse, aggVars, blVars, scVars, appVars,
                   tpVars, afVars>>

CVNext == CVEnter \/ CVFold \/ CVReport

-----------------------------------------------------------------------------
(* score_baseline_linear_regression_model *)

\* test_size=0.25 of line 41, as the fraction TestSizeNum / TestSizeDen
TestSizeNum == 1

TestSizeDen == 4

\* cross_val_score's default number of folds (lines 48-49 pass none)
DefaultFolds == 5

\* ceil(n * num / den)
CeilFrac(n, num, den) == (n * num + den - 1) \div den

\* As n_test, with the 20% of the docstring.
n_test_fifth(n) == CeilFrac(n, 1, 5)

\* train_test_split: n_test = ceil(test_size * n)
n_test(n) == CeilFrac(n, TestSizeNum, TestSizeDen)

\* train_test_split: n_train = floor((1 - test_size) * n)
n_train(n) == (n * (TestSizeDen - TestSizeNum)) \div TestSizeDen

\* the subsets of S with exactly k elements
RECURSIVE KSubsets(_, _)
KSubsets(S, k) ==
    IF k = 0 THEN { {} }
    ELSE IF Cardinality(S) < k THEN {}
    ELSE LET x == CHOOSE v \in S : \A w \in S : v <= w
         IN  KSubsets(S \ {x}, k) \cup { T \cup {x} : T \in KSubsets(S \ {x}, k - 1) }

BaselineInit ==
    /\ bl_rows \in 0..MaxBaselineRows
    /\ bl_pc = "call"
    /\ bl_X_train = {}
    /\ bl_X_val = {}
    /\ lr_model = {}
    /\ bl_printed = << >>

BaselineIdle ==
    /\ bl_rows = 0
    /\ bl_pc = "idle"
    /\ bl_X_train = {}
    /\ bl_X_val = {}
    /\ lr_model = {}
    /\ bl_printed = << >>

\* lines 40-58: the shuffled split (the first n_test rows of a permutation
\* are the validation rows, the rest the training rows), the fit, the two
\* cross_val_score calls, the RMSE and the report.  train_test_split raises
\* when a side would be empty; cross_val_score raises when it is given fewer
\* rows than folds.
ScoreBaseline ==
    /\ bl_pc = "call"
    /\ IF bl_rows = 0 \/ n_train(bl_rows) = 0
       THEN /\ bl_pc' = "raised"
            /\ UNCHANGED <<bl_X_train, bl_X_val, lr_model, bl_printed>>
       ELSE /\ \E val \in KSubsets(Rows(bl_rows), n_test(bl_rows)) :
                 /\ bl_X_val' = val
                 /\ bl_X_train' = Rows(bl_rows) \ val
                 /\ lr_model' = Rows(bl_rows) \ val
            /\ IF n_train(bl_rows) < DefaultFolds \/ n_test(bl_rows) < DefaultFolds
               THEN bl_pc' = "raised" /\ UNCHANGED bl_printed
               ELSE /\ bl_pc' = "returned"
                    /\ bl_printed' = <<"Train R2 score", "Validation R^2 score", "RMSE",
                                       "Feature coefficient results",
                                       "feature : coef of lr_model">>
    /\ UNCHANGED <<bl_rows, aggVars, cvVars, scVars, appVars,
                   tpVars, afVars>>

BaselineNext == ScoreBaseline

-----------------------------------------------------------------------------
(* scroll_infinite_page *)

\* range(1000) of line 24
ScrollLimit == 1000

\* "there are 12 album records per review collection", line 27
AlbumsPerCollection == 12

\* As enough, with a strict comparison.
enough_strict(collections, wanted) == collections * AlbumsPerCollection > wanted

\* line 27: num_review_collections*12 >= num_albums
enough(collections, wanted) == collections * AlbumsPerCollection >= wanted

ScrollInit ==
    /\ num_albums \in 0..MaxAlbums
    /\ page \in 0..MaxFragments
    /\ sc_i = 0
    /\ num_review_collections = 0
    /\ scrolls = 0
    /\ sc_pc = "loop"

ScrollIdle ==
    /\ num_albums = 0
    /\ page = 0
    /\ sc_i = 0
    /\ num_review_collections = 0
    /\ scrolls = 0
    /\ sc_pc = "idle"

\* lines 25-28: count the fragments; enough of them: break
ScrollBreak ==
    /\ sc_pc = "loop"
    /\ sc_i < ScrollLimit
    /\ enough(page, num_albums)
    /\ num_review_collections' = page
    /\ sc_pc' = "returned"
    /\ UNCHANGED <<num_albums, page, sc_i, scrolls, aggVars, cvVars, blVars, appVars,
                   tpVars, afVars>>

\* lines 25-32: count the fragments; too few: scroll to the bottom and sleep,
\* during which the page may or may not load another fragment
ScrollDown ==
    /\ sc_pc = "loop"
    /\ sc_i < ScrollLimit
    /\ ~enough(page, num_albums)
    /\ num_review_collections' = page
    /\ scrolls' = scrolls + 1
    /\ page' \in { page, Min(page + 1, MaxFragments) }
    /\ sc_i' = sc_i + 1
    /\ UNCHANGED <<num_albums, sc_pc, aggVars, cvVars, blVars, appVars,
                   tpVars, afVars>>

\* line 24: range(1000) is used up, the loop ends and the function returns
ScrollExhausted ==
    /\ sc_pc = "loop"
    /\ sc_i = ScrollLimit
    /\ sc_pc' = "returned"
    /\ UNCHANGED <<num_albums, page, sc_i, num_review_collections, scrolls,
                   aggVars, cvVars, blVars, appVars,
                   tpVars, afVars>>

ScrollNext == ScrollBreak \/ ScrollDown \/ ScrollExhausted

-----------------------------------------------------------------------------
(* app.py: one run of the Streamlit script.  Slider values in [0, 1] are
   kept in hundredths, the prediction in thousandths. *)

\* the followers slider of lines 25-26: min_value, value, max_value
FollowersMin == 1000

FollowersDefault == 500000

FollowersMax == 1000000

\* the widget values a run is drawn from: the ends and the default of each
\* slider
FollowerValues == {FollowersMin, FollowersDefault, FollowersMax}

UnitValues == {0, 50, 100}

\* math.log(followers) in thousandths, for the follower values above
log(f) ==
    CASE f = 1000 -> 6908
      [] f = 500000 -> 13122
      [] f = 1000000 -> 13816

\* data/final_model.pkl is a fitted linear model (a Lasso, the sidebar says);
\* the file is not part of the sources, so a run is checked against several
\* linear models: an intercept and one coefficient per feature, in the order
\* of line 40.
Models ==
    { [intercept |-> -40, coef |-> <<1, 10, -5, 3, -2, 8>>],
      [intercept |-> -56, coef |-> <<1, 10, -5, 3, -2, 8>>],
      [intercept |-> -70, coef |-> <<1, 10, -5, 3, -2, 12>>] }

\* model.predict(features.reshape(1, -1))[0] in thousandths; features is
\* [mode, danceability, energy, speechiness, valence, log_followers]
predict(mdl, mode, dance, en, speech, val, log_followers) ==
    1000 * mdl.intercept
      + 1000 * mdl.coef[1] * mode
      + 10 * (mdl.coef[2] * dance + mdl.coef[3] * en
                + mdl.coef[4] * speech + mdl.coef[5] * val)
      + mdl.coef[6] * log_followers

\* int(popularity[0]): truncation toward zero
int(thousandths) ==
    IF thousandths >= 0 THEN thousandths \div 1000 ELSE -((-thousandths) \div 1000)

\* st.progress accepts an int in 0..100 and raises StreamlitAPIException
\* for any other
ProgressAccepts(v) == 0 <= v /\ v <= 100

AppInit ==
    /\ followers \in FollowerValues
    /\ danceability \in UnitValues
    /\ energy \in UnitValues
    /\ speechiness \in UnitValues
    /\ valence \in UnitValues
    /\ mode_label \in {"Major Key", "Minor Key"}
    /\ model \in Models
    /\ popularity = 0
    /\ popularity_display = << >>
    /\ popularity_number = << >>
    /\ app_pc = "run"

AppIdle ==
    /\ followers = FollowersDefault
    /\ danceability = 50
    /\ energy = 50
    /\ speechiness = 50
    /\ valence = 50
    /\ mode_label = "Major Key"
    /\ model = [intercept |-> 0, coef |-> <<0, 0, 0, 0, 0, 0>>]
    /\ popularity = 0
    /\ popularity_display = << >>
    /\ popularity_number = << >>
    /\ app_pc = "idle"

\* lines 25-43: read the widgets, predict, pass int(popularity[0]) to the
\* progress meter and show it as the score; a value the progress meter
\* rejects ends the run before the score is shown
AppRun ==
    /\ app_pc = "run"
    /\ LET mode == IF mode_label = "Major Key" THEN 1 ELSE 0
           log_followers == log(followers)
           pop == predict(model, mode, danceability, energy, speechiness,
                          valence, log_followers)
       IN  /\ popularity' = pop
           /\ popularity_display' = <<int(pop)>>
           /\ IF ProgressAccepts(int(pop))
              THEN /\ popularity_number' = <<int(pop)>>
                   /\ app_pc' = "done"
              ELSE /\ popularity_number' = << >>
                   /\ app_pc' = "raised"
    /\ UNCHANGED <<followers, danceability, energy, speechiness, valence,
                   mode_label, model, aggVars, cvVars, blVars, scVars,
                   tpVars, afVars>>

AppNext == AppRun

-----------------------------------------------------------------------------
(* get_spotify_track_popularity_and_artist_followers, data_acquisition_utilities.py
   lines 223-253.  A track URI is a number; the list passed in holds the URIs
   1..n in order. *)

\* line 233
group_size == 50

\* spotify_api_client.tracks(tracks=uris)['tracks']: one track per URI asked
\* for, in the order asked
tracks(uris) ==
    [k \in 1..Len(uris) |->
        [uri |-> uris[k], popularity |-> uris[k] % 101,
         artists |-> <<[uri |-> uris[k] % 7]>>]]

\* spotify_api_client.artists(artist_uris)['artists']: one artist per URI
artists(artist_uris) ==
    [k \in 1..Len(artist_uris) |->
        [uri |-> artist_uris[k], followers |-> [total |-> 1000 * artist_uris[k]]]]

\* line 234: zip(*(iter(track_uris),) * group_size) is group_size references
\* to ONE iterator.  Each step of the zip draws group_size items from it; when
\* the iterator runs dry before the tuple is complete, the zip stops and the
\* items drawn for that tuple are dropped.
zip_has_next(uris, drawn) == Len(uris) - drawn >= group_size

zip_next(uris, drawn) == SubSeq(uris, drawn + 1, drawn + group_size)

\* lines 240-249: the records of one response
popularity_records(uris) ==
    LET trks == tracks(uris)
        artist_uris == [k \in 1..Len(trks) |-> trks[k].artists[1].uri]
        arts == artists(artist_uris)
    IN  [k \in 1..Min(Len(trks), Len(arts)) |->
            [Track_URI |-> trks[k].uri,
             Popularity |-> trks[k].popularity,
             Artist_Followers |-> arts[k].followers.total]]

TrackPopularityInit ==
    /\ track_uris \in { [k \in 1..n |-> k] : n \in 0..MaxUris }
    /\ uri_iter = 0
    /\ requests = << >>
    /\ track_popularity = << >>
    /\ df_spotify_track_popularity = << >>
    /\ tp_pc = "loop"

\* The function when another program is the one running
TrackPopularityIdle ==
    /\ track_uris = << >>
    /\ uri_iter = 0
    /\ requests = << >>
    /\ track_popularity = << >>
    /\ df_spotify_track_popularity = << >>
    /\ tp_pc = "idle"

\* lines 238-250: one iteration of the loop over track_uri_groups
TrackUriGroup ==
    /\ tp_pc = "loop"
    /\ zip_has_next(track_uris, uri_iter)
    /\ LET track_uri_group == zip_next(track_uris, uri_iter)
       IN  /\ requests' = Append(requests, track_uri_group)
           /\ track_popularity' = track_popularity \o popularity_records(track_uri_group)
    /\ uri_iter' = uri_iter + group_size
    /\ UNCHANGED <<track_uris, df_spotify_track_popularity, tp_pc,
                   aggVars, cvVars, blVars, scVars, appVars, afVars>>

\* lines 238, 251-253: the zip is over (the iterator is drained), the
\* DataFrame is built from the records and returned
TrackPopularityReturn ==
    /\ tp_pc = "loop"
    /\ ~zip_has_next(track_uris, uri_iter)
    /\ uri_iter' = Len(track_uris)
    /\ df_spotify_track_popularity' = track_popularity
    /\ tp_pc' = "returned"
    /\ UNCHANGED <<track_uris, requests, track_popularity,
                   aggVars, cvVars, blVars, scVars, appVars, afVars>>

TrackPopularityNext == TrackUriGroup \/ TrackPopularityReturn

-----------------------------------------------------------------------------
(* get_spotify_track_audio_features, data_acquisition_utilities.py lines
   170-220.  An album name is a sequence of pieces of text, the piece " EP"
   written on its own; the track t of the album at position i of the input
   has the URI <<i, t>>. *)

AlbumNames == { <<"Kid A">>, <<"Broken", " EP">>, <<"Some", " EP", "IC">> }

\* line 165: a.replace(' EP', '') removes every occurrence of ' EP'
replace_EP(a) == SelectSeq(a, LAMBDA piece : piece # " EP")

\* lines 156-167: format_album_names_for_spotify
format_album_names_for_spotify(names) ==
    [k \in 1..Len(names) |-> replace_EP(names[k])]

\* What the API does for one album:
\*   search    "error": search raises SpotifyException; "none": no result
\*             (get_spotify_album returns None); "found": an album;
\*   features  "error": album_tracks or audio_features raises
\*             SpotifyException; "null": audio_features answers None;
\*             "list": it answers the list `items`;
\*   items     per track of the album its audio features, or "null" where the
\*             API has none for the track (a None entry of the list).
SpotifyAnswers ==
    { [search |-> q, features |-> "unused", items |-> << >>] : q \in {"error", "none"} }
    \cup { [search |-> "found", features |-> f, items |-> << >>] : f \in {"error", "null"} }
    \cup { [search |-> "found", features |-> "list", items |-> it] :
              it \in SeqsUpTo({"features", "null"}, MaxAlbumTracks) }

\* line 183: zip(album_names_spotify, artist_names) ends with the shorter list
album_pairs == Min(Len(album_names), Len(artist_names))

\* lines 191-208: list.extend(<generator>) appends the records one at a time
\* as the generator yields them.  The generator raises TypeError at the first
\* None entry (track['uri'] on None); the records appended before it stay in
\* the list.
yielded(items) ==
    IF \E k \in 1..Len(items) : items[k] = "null"
    THEN (CHOOSE k \in 1..Len(items) :
             /\ items[k] = "null"
             /\ \A j \in 1..(k - 1) : items[j] # "null") - 1
    ELSE Len(items)

\* lines 192-207: the record of one track (Audio: the thirteen audio fields)
track_record(i, t, album_name, artist_name) ==
    [Track_URI |-> <<i, t>>, Album_Title |-> album_name, Artist |-> artist_name,
     Audio |-> "features"]

extended(list, i, items, album_name, artist_name) ==
    list \o [t \in 1..yielded(items) |-> track_record(i, t, album_name, artist_name)]

AudioFeaturesInit ==
    /\ album_names \in SeqsUpTo(AlbumNames, MaxAlbumNames)
    /\ artist_names \in { [k \in 1..n |-> k] :
                             n \in {Len(album_names) - 1, Len(album_names)} \cap Nat }
    /\ spotify \in [1..Len(album_names) -> SpotifyAnswers]
    /\ af_i = 0
    /\ track_audio_features = << >>
    /\ af_printed = << >>
    /\ df_track_audio_features = << >>
    /\ af_pc = "loop"

\* The function when another program is the one running
AudioFeaturesIdle ==
    /\ album_names = << >>
    /\ artist_names = << >>
    /\ spotify = << >>
    /\ af_i = 0
    /\ track_audio_features = << >>
    /\ af_printed = << >>
    /\ df_track_audio_features = << >>
    /\ af_pc = "idle"

\* lines 183-185, 210-211: the search raises SpotifyException, which is
\* caught; the error line is printed
AlbumSearchError ==
    /\ af_pc = "loop"
    /\ af_i < album_pairs
    /\ spotify[af_i + 1].search = "error"
    /\ af_printed' = Append(af_printed, af_i + 1)
    /\ af_i' = af_i + 1
    /\ UNCHANGED <<album_names, artist_names, spotify, track_audio_features,
                   df_track_audio_features, af_pc,
                   aggVars, cvVars, blVars, scVars, appVars, tpVars>>

\* lines 183-187: no album found: continue
AlbumNotFound ==
    /\ af_pc = "loop"
    /\ af_i < album_pairs
    /\ spotify[af_i + 1].search = "none"
    /\ af_i' = af_i + 1
    /\ UNCHANGED <<album_names, artist_names, spotify, track_audio_features,
                   af_printed, df_track_audio_features, af_pc,
                   aggVars, cvVars, blVars, scVars, appVars, tpVars>>

\* lines 183-190, 210-211: the album is found, fetching its tracks' features
\* raises SpotifyException, or answers None and building the generator over
\* None raises TypeError; either is caught before any record is appended
AlbumFeaturesError ==
    /\ af_pc = "loop"
    /\ af_i < album_pairs
    /\ spotify[af_i + 1].search = "found"
    /\ spotify[af_i + 1].features \in {"error", "null"}
    /\ af_printed' = Append(af_printed, af_i + 1)
    /\ af_i' = af_i + 1
    /\ UNCHANGED <<album_names, artist_names, spotify, track_audio_features,
                   df_track_audio_features, af_pc,
                   aggVars, cvVars, blVars, scVars, appVars, tpVars>>

\* lines 183-211: the album is found and its features are a list; the list
\* is extended with the records, up to the end or up to the TypeError of a
\* None entry, which is caught
AlbumExtend ==
    /\ af_pc = "loop"
    /\ af_i < album_pairs
    /\ spotify[af_i + 1].search = "found"
    /\ spotify[af_i + 1].features = "list"
    /\ LET i == af_i + 1
           items == spotify[i].items
           album_name == format_album_names_for_spotify(album_names)[i]
       IN  /\ track_audio_features' =
                 extended(track_audio_features, i, items, album_name, artist_names[i])
           /\ af_printed' = IF yielded(items) < Len(items)
                            THEN Append(af_printed, i) ELSE af_printed
    /\ af_i' = af_i + 1
    /\ UNCHANGED <<album_names, artist_names, spotify, df_track_audio_features, af_pc,
                   aggVars, cvVars, blVars, scVars, appVars, tpVars>>

\* lines 213-220: the DataFrame of the records, its columns reordered; a
\* DataFrame of no records has no columns and selecting them raises KeyError
AudioFeaturesReturn ==
    /\ af_pc = "loop"
    /\ af_i = album_pairs
    /\ IF track_audio_features = << >>
       THEN af_pc' = "raised" /\ UNCHANGED df_track_audio_features
       ELSE af_pc' = "returned" /\ df_track_audio_features' = track_audio_features
    /\ UNCHANGED <<album_names, artist_names, spotify, af_i, track_audio_features,
                   af_printed, aggVars, cvVars, blVars, scVars, appVars, tpVars>>

AudioFeaturesNext ==
    \/ AlbumSearchError
    \/ AlbumNotFound
    \/ AlbumFeaturesError
    \/ AlbumExtend
    \/ AudioFeaturesReturn

-----------------------------------------------------------------------------
(* The specifications *)

InitAgg ==
    AggInit /\ CVIdle /\ BaselineIdle /\ ScrollIdle /\ AppIdle
    /\ TrackPopularityIdle /\ AudioFeaturesIdle

SpecAgg == InitAgg /\ [][AggNext]_vars

InitCV ==
    CVInit /\ AggIdle /\ BaselineIdle /\ ScrollIdle /\ AppIdle
    /\ TrackPopularityIdle /\ AudioFeaturesIdle

SpecCV == InitCV /\ [][CVNext]_vars

InitBaseline ==
    BaselineInit /\ AggIdle /\ CVIdle /\ ScrollIdle /\ AppIdle
    /\ TrackPopularityIdle /\ AudioFeaturesIdle

SpecBaseline == InitBaseline /\ [][BaselineNext]_vars

InitScroll ==
    ScrollInit /\ AggIdle /\ CVIdle /\ BaselineIdle /\ AppIdle
    /\ TrackPopularityIdle /\ AudioFeaturesIdle

SpecScroll == InitScroll /\ [][ScrollNext]_vars

InitApp ==
    AppInit /\ AggIdle /\ CVIdle /\ BaselineIdle /\ ScrollIdle
    /\ TrackPopularityIdle /\ AudioFeaturesIdle

SpecApp == InitApp /\ [][AppNext]_vars

InitTrackPopularity ==
    TrackPopularityInit /\ AggIdle /\ CVIdle /\ BaselineIdle /\ ScrollIdle /\ AppIdle
    /\ AudioFeaturesIdle

SpecTrackPopularity == InitTrackPopularity /\ [][TrackPopularityNext]_vars

InitAudioFeatures ==
    AudioFeaturesInit /\ AggIdle /\ CVIdle /\ BaselineIdle /\ ScrollIdle /\ AppIdle
    /\ TrackPopularityIdle

SpecAudioFeatures == InitAudioFeatures /\ [][AudioFeaturesNext]_vars

\* Any one of the programs
Init ==
    \/ InitAgg \/ InitCV \/ InitBaseline \/ InitScroll \/ InitApp
    \/ InitTrackPopularity \/ InitAudioFeatures

Next ==
    \/ AggNext \/ CVNext \/ BaselineNext \/ ScrollNext \/ AppNext
    \/ TrackPopularityNext \/ AudioFeaturesNext

Spec == Init /\ [][Next]_vars

-----------------------------------------------------------------------------
(* Claims about generate_spotify_album_features, under SpecAgg *)

Returned == agg_fn # "none" /\ agg_out.raised = "none"

\* C1 (as stated): for every non-empty batch, the row returned by either copy
\* has Number of Tracks equal to the number of input rows.
C1_NumberOfTracks ==
    Returned => agg_out.frame[1].Number_of_Tracks = Len(album_tracks.rows)

\* C2 (as stated): called on an empty frame, the aggregator returns no row
\* and raises InvalidInputError.
C2_EmptyRaisesInvalidInput ==
    (agg_fn # "none" /\ Len(album_tracks.rows) = 0)
        => (agg_out.frame = << >> /\ agg_out.raised = "InvalidInputError")

\* C2 (amended): called on an empty frame, the aggregator returns no row and
\* raises a lookup error: IndexError from .iloc[0] when the frame has the
\* track columns, KeyError from the column lookup when it has none.
C2_EmptyRaisesLookupError ==
    (agg_fn # "none" /\ Len(album_tracks.rows) = 0)
        => /\ agg_out.frame = << >>
           /\ agg_out.raised = (IF album_tracks.columns THEN "IndexError" ELSE "KeyError")

C2_Witness ==
    /\ agg_fn = "preparation"
    /\ album_tracks.columns
    /\ Len(album_tracks.rows) = 0
    /\ agg_out.raised = "IndexError"

\* C3 (as stated): every permutation of a non-empty batch of one album gives
\* an identical album-level row, every field equal.
C3_OrderInvariant ==
    (agg_fn = "preparation" /\ agg_out.raised = "none")
        => \A p \in Perms(Len(album_tracks.rows)) :
              generate_spotify_album_features(Reordered(album_tracks, p)) = agg_out

ExactFields(r) ==
    <<r.Album_Title, r.Artist, r.Number_of_Tracks, r.Duration_minutes, r.Majorness>>

\* C3 (amended): every permutation of a non-empty batch of one album gives
\* the same Album Title, Artist, Number of Tracks, Duration (minutes) and
\* Majorness (the fields reduced from integer columns); the averaged float
\* fields are summed in row order and are not covered.
C3_OrderInvariantExactFields ==
    (agg_fn = "preparation" /\ agg_out.raised = "none")
        => \A p \in Perms(Len(album_tracks.rows)) :
              LET q == generate_spotify_album_features(Reordered(album_tracks, p))
              IN  /\ q.raised = "none"
                  /\ ExactFields(q.frame[1]) = ExactFields(agg_out.frame[1])

C3_Witness ==
    /\ agg_fn = "preparation"
    /\ agg_out.raised = "none"
    /\ Len(album_tracks.rows) = 3
    /\ album_tracks.rows[1].Mode # album_tracks.rows[2].Mode
    /\ album_tracks.rows[1].Duration_ms # album_tracks.rows[3].Duration_ms

\* C4: for every non-empty batch with Mode 0 or 1, Majorness is the number of
\* rows with Mode 1 divided by the number of rows, rounded to 4 decimals
\* (the rounding done exactly here, in integers), and lies in [0, 1].
C4_Majorness ==
    Returned =>
        LET n == Len(album_tracks.rows)
            ones == Cardinality({ i \in 1..n : album_tracks.rows[i].Mode = 1 })
            M == agg_out.frame[1].Majorness
        IN  /\ M = Dec(RoundHalfEven(10000 * ones, n), 10000)
            /\ FloatLeq(FloatZero, M)
            /\ FloatLeq(M, FromInt(1))

C4_Witness ==
    /\ Returned
    /\ Len(album_tracks.rows) = 3
    /\ Cardinality({ i \in 1..3 : album_tracks.rows[i].Mode = 1 }) = 2
    /\ agg_out.frame[1].Majorness = Dec(6667, 10000)

-----------------------------------------------------------------------------
(* Claims about manual_cross_validate(_poly), under SpecCV *)

ValSets == { folds[i].val : i \in 1..Len(folds) }

\* C5: a call with 2 <= k <= n rows (X and y aligned) does not raise; when it
\* returns the loop has run exactly k times and each metric list holds k
\* values; the k validation sets are pairwise disjoint, their union is all n
\* rows, and each fold's training set is the complement of its validation set.
C5_FoldsPartition ==
    /\ (cv_pc \in {"loop", "returned", "raised"}
            /\ 2 <= cv /\ cv <= X.rows /\ y = X.rows)
          => cv_pc # "raised"
    /\ cv_pc = "returned"
          => /\ fold = cv
             /\ Len(folds) = cv
             /\ Len(r2_train) = cv /\ Len(r2_val) = cv /\ Len(rmse) = cv
             /\ \A i, j \in 1..cv : i # j => folds[i].val \cap folds[j].val = {}
             /\ UNION ValSets = Rows(X.rows)
             /\ \A r \in Rows(X.rows) :
                   Cardinality({ i \in 1..cv : r \in folds[i].val }) = 1
             /\ \A i \in 1..cv : folds[i].train = Rows(X.rows) \ folds[i].val

C5_Witness ==
    /\ cv_pc = "returned"
    /\ cv_fn = "manual_cross_validate"
    /\ X.rows = 5
    /\ cv = 3
    /\ Cardinality(folds[1].val) = 2
    /\ Cardinality(folds[3].val) = 1

\* C6: after every iteration, in both functions, the statistics of the
\* scaler bound to `scaler` come from exactly that fold's training rows (none
\* of its validation rows, nothing left over from an earlier fold), and so
\* does the estimator's fit and the fit behind the fold's three metrics.
C6_NoLeakage ==
    (cv_pc \in {"loop", "returned"} /\ fold >= 1)
        => LET val_ind == test_indices(indices, cv, fold)
               train_ind == Rows(X.rows) \ val_ind
           IN  /\ val_ind # {}
               /\ scaler.seen = train_ind
               /\ scaler.seen \cap val_ind = {}
               /\ estimator.fit_rows = train_ind
               /\ estimator.fit_rows \cap val_ind = {}
               /\ r2_train[fold].fit_rows = train_ind
               /\ r2_val[fold].fit_rows = train_ind
               /\ rmse[fold].fit_rows = train_ind

C6_Witness ==
    /\ cv_pc = "loop"
    /\ cv_fn = "manual_cross_validate_poly"
    /\ fold = 2
    /\ cv = 3
    /\ X.rows = 5
    /\ folds[1].val \subseteq scaler.seen
    /\ Cardinality(scaler.seen) = 3

BadInput == X.rows < cv \/ X.rows # y

\* C7 (as stated): with fewer rows than folds, or X and y of different row
\* counts, manual_cross_validate fails with InvalidInputError before fitting
\* any fold and without printing.
C7_RaisesInvalidInput ==
    (cv_fn = "manual_cross_validate" /\ cv_pc \in {"loop", "returned", "raised"}
        /\ BadInput)
        => /\ cv_pc = "raised"
           /\ cv_error = "InvalidInputError"
           /\ fold = 0 /\ estimator.fits = 0 /\ printed = << >>

\* C7 (amended): with fewer rows than folds, or X and y of different row
\* counts, manual_cross_validate fails with the ValueError raised by
\* kf.split(X, y), before fitting any fold and without printing.
C7_RaisesValueError ==
    (cv_fn = "manual_cross_validate" /\ cv_pc \in {"loop", "returned", "raised"}
        /\ BadInput)
        => /\ cv_pc = "raised"
           /\ cv_error = "ValueError"
           /\ fold = 0 /\ estimator.fits = 0 /\ printed = << >>

C7_Witness ==
    /\ cv_fn = "manual_cross_validate"
    /\ cv_pc = "raised"
    /\ cv_error = "ValueError"
    /\ 2 <= cv
    /\ X.rows < cv
    /\ y = X.rows

-----------------------------------------------------------------------------
(* Claims about score_baseline_linear_regression_model, under SpecBaseline *)

SplitDone == bl_pc \in {"returned", "raised"} /\ bl_X_val # {}

\* C9 (as stated): the rows are split 80/20: the validation set has 20% of
\* the rows (rounded up, as train_test_split rounds), the training set the
\* rest; the two are disjoint and cover all rows.
C9_Split8020 ==
    SplitDone
        => /\ Cardinality(bl_X_val) = n_test_fifth(bl_rows)
           /\ Cardinality(bl_X_train) = bl_rows - n_test_fifth(bl_rows)
           /\ bl_X_train \cap bl_X_val = {}
           /\ bl_X_train \cup bl_X_val = Rows(bl_rows)

-----------------------------------------------------------------------------
(* Claims about scroll_infinite_page, under SpecScroll *)

-----------------------------------------------------------------------------
(* Claims about app.py, under SpecApp *)

\* C8 (as stated): for every allowed combination of widget inputs, the value
\* passed to the progress meter and the value displayed are integers in
\* 0..100, and a prediction outside [0, 100] is not displayed as a score.
C8_DisplayedInRange ==
    app_pc \in {"done", "raised"}
        => /\ \A i \in 1..Len(popularity_display) : popularity_display[i] \in 0..100
           /\ \A i \in 1..Len(popularity_number) : popularity_number[i] \in 0..100
           /\ (popularity < 0 \/ popularity > 100000) => popularity_number = << >>

-----------------------------------------------------------------------------
(* manual_cross_validate: the model instance of each fold *)

\* The coefficient lines printed after the loop
CoefficientLines == SelectSeq(printed, LAMBDA l : l.line = "coefficient")

\* C11: in manual_cross_validate no fold fits an instance that was fitted
\* before (each fold has a fresh model), the coefficients printed after the
\* loop are those of the last fold's fit, the c-th paired with the c-th column
\* of X, and the estimator the caller passed in holds no fit when the call has
\* returned.
C11_FreshModelPerFold ==
    cv_fn = "manual_cross_validate" =>
        /\ estimator.fits <= 1
        /\ cv_pc = "returned" =>
              /\ Len(CoefficientLines) = X.columns
              /\ \A c \in 1..X.columns :
                    CoefficientLines[c].of = <<c, [column |-> c, fold |-> cv]>>
              /\ estimator.fit_rows = {}

-----------------------------------------------------------------------------
(* get_spotify_track_popularity_and_artist_followers: the requests *)

\* The places <<r, j>> at which the URI u was sent: entry j of request r
SentAt(u) ==
    { rj \in (1..Len(requests)) \X (1..group_size) :
         rj[2] <= Len(requests[rj[1]]) /\ requests[rj[1]][rj[2]] = u }

\* C12: when the function has returned, no request held more than 50 URIs,
\* every URI of the input list was sent in exactly one request, and the
\* result has one record per input track.
C12_EveryUriSentOnce ==
    tp_pc = "returned" =>
        /\ \A r \in 1..Len(requests) : Len(requests[r]) <= group_size
        /\ \A k \in 1..Len(track_uris) : Cardinality(SentAt(track_uris[k])) = 1
        /\ Len(df_spotify_track_popularity) = Len(track_uris)

-----------------------------------------------------------------------------
(* get_spotify_track_audio_features: the records of each album *)

\* The records collected for the album at position i
AlbumRecords(i) ==
    SelectSeq(track_audio_features, LAMBDA rec : rec.Track_URI[1] = i)

\* The tracks the API returned for the album at position i
ReturnedTracks(i) ==
    IF spotify[i].search = "found" /\ spotify[i].features = "list"
    THEN Len(spotify[i].items) ELSE 0

\* C13: every album the loop has been through has either a record for every
\* track the API returned for it or no record at all, also when its
\* conversion raised; and the function ends only after every pair of album
\* and artist has been through the loop, whatever was raised on the way.
C13_AlbumAllOrNothing ==
    /\ \A i \in 1..af_i :
          Len(AlbumRecords(i)) \in {0, ReturnedTracks(i)}
    /\ af_pc \in {"returned", "raised"} => af_i = album_pairs

=============================================================================
